---- MODULE Spec2Model ----
(***************************************************************************)
(* HYD Builder quote generator (src/app.py): a Streamlit script.           *)
(*                                                                         *)
(* Streamlit executes the whole script top to bottom once per user         *)
(* interaction.  Only st.session_state and the values of the widgets that  *)
(* were drawn in the previous run survive from one run to the next; every  *)
(* module-level name (SAMPLE_RATES, company_info, the locals of the page   *)
(* that is shown) is rebuilt by the run.  One action of this module is one *)
(* user interaction together with the script run(s) it causes; the state   *)
(* is the state at the end of that run.                                    *)
(*                                                                         *)
(* calculate_quote is also a plain function of the module.  A behaviour    *)
(* with entry = "call" is a direct invocation of it with arguments and a   *)
(* price list drawn from bounded sets; a behaviour with entry = "session"  *)
(* is a browser session.                                                   *)
(*                                                                         *)
(* Amounts.  Python computes in floats; the model computes exactly, in     *)
(* integers: prices, row totals, extras and subtotal are rupees,           *)
(* discount_amt and taxable are 1/100 rupee, gst_amt and grand_total are   *)
(* 1/10000 rupee, so that the two divisions by 100 lose nothing.           *)
(*                                                                         *)
(* Left out: the price list is cut to its first two entries; the quote id  *)
(* and date (datetime.now()), the e-mail, the project summary and the      *)
(* layout of the PDF and Excel files beyond the cost table and the totals; *)
(* the values the Quote Builder inputs keep between runs (a submission may *)
(* carry any values).  admin_rates is a history variable, recorded by      *)
(* SpecRecorded only.                                                      *)
(***************************************************************************)
EXTENDS Integers, Sequences, FiniteSets, TLC

VARIABLES
    entry,          \* "session" | "call"
    logged_in,      \* st.session_state.logged_in
    username,       \* st.session_state.username
    login_input,    \* values held by the Username and Password inputs, NoWidget when not drawn
    page,           \* value of the navigation radio
    my_quotes,      \* st.session_state.my_quotes (absent = empty)
    SAMPLE_RATES,   \* the module-level price list as the last run left it
    company_info,   \* the module-level company record as the last run left it
    rate_widget,    \* values held by the rate_<name> inputs, NoWidget when not drawn
    company_widget, \* values held by the company inputs, NoWidget when not drawn
    submit,         \* Quote Builder: form_submit_button of the last run
    cname,          \* Quote Builder: customer name submitted in the last run
    cphone,         \* Quote Builder: phone number submitted in the last run
    selected_items, \* Quote Builder: the list the form built in the last run
    call,           \* arguments calculate_quote was invoked with in the last run, or NoCall
    quote_calc,     \* what that invocation returned, or NoCalc
    shown,          \* st.error / st.success of the Quote Builder in the last run
    pdf,            \* the table data of the PDFs the last run generated, in order
    admin_rates     \* history: the price the administrator last entered for each item

vars == <<entry, logged_in, username, login_input, page, my_quotes, SAMPLE_RATES, company_info,
          rate_widget, company_widget, submit, cname, cphone, selected_items,
          call, quote_calc, shown, pdf, admin_rates>>

-----------------------------------------------------------------------------
(* Bounds and input sets *)

MaxQuotes == 2          \* submissions per session
MaxSel == 2             \* length of a selection list in a direct call

GST_PERCENT == 18

\* The first entries of SAMPLE_RATES, in the dict's order.
RATES_0 ==
    << [name |-> "Cement (bag, 50kg)", rate |-> 420],
       [name |-> "Bricks (1000 nos)", rate |-> 7000] >>

ItemOrder == [i \in 1..Len(RATES_0) |-> RATES_0[i].name]
ItemNames == {RATES_0[i].name : i \in 1..Len(RATES_0)}
DefaultRates == [n \in ItemNames |->
                   RATES_0[CHOOSE i \in 1..Len(RATES_0) : RATES_0[i].name = n].rate]

UnknownItem == "Paint"                 \* never a key of SAMPLE_RATES
NewRates == {500}                      \* what the administrator types (or the built-in price)
Quantities == {0, 2}                   \* number_input, min_value 0
Fees == {0, 1000}                      \* design_fee, misc: min_value 0
FormDiscounts == {100}                 \* number_input, min 0, max 100
CallDiscounts == {0, 10, 100, 150}     \* a direct caller is not range-checked
Names == {"", "Mr. Ramesh"}
Phones == {"", "9848012345"}
Usernames == {"admin"}                 \* typed over the empty input
Passwords == {"admin"}                 \* typed over the empty input
Pages == {"Home", "Quote Builder", "My Quotes", "Admin"}

NoWidget == [none |-> "widget"]
NoCall == [none |-> "call"]
NoCalc == [none |-> "calc"]
NoForm == [none |-> "form"]

COMPANY_0 == [name |-> "Hyderabad Builders & Developers",
              address |-> "Banjara Hills, Hyderabad"]
CompanyNames == {COMPANY_0.name, "Deccan Constructions"}
CompanyAddresses == {COMPANY_0.address, "Madhapur, Hyderabad"}

-----------------------------------------------------------------------------
(* Python helpers *)

\* dict.get(key, default)
Get(d, key, default) == IF key \in DOMAIN d THEN d[key] ELSE default

RECURSIVE SumSeq(_)
SumSeq(s) == IF s = <<>> THEN 0 ELSE Head(s) + SumSeq(Tail(s))

Reversed(s) == [i \in 1..Len(s) |-> s[Len(s) + 1 - i]]

RECURSIVE SelectSeqOf(_, _)
\* the subsequence of s whose elements are in the set keep
SelectSeqOf(s, keep) ==
    IF s = <<>> THEN <<>>
    ELSE IF Head(s) \in keep THEN <<Head(s)>> \o SelectSeqOf(Tail(s), keep)
    ELSE SelectSeqOf(Tail(s), keep)

-----------------------------------------------------------------------------
(* The pricing engine *)

calc_item_total(rates, item_name, qty) == Get(rates, item_name, 0) * qty

\* (slip: an unknown item priced at 1 instead of 0)
QuoteRow_default1(rates, it) ==
    [Item |-> it.name,
     Qty |-> it.qty,
     UnitPrice |-> Get(rates, it.name, 1),
     Total |-> Get(rates, it.name, 1) * it.qty]

\* one pass of the loop body of calculate_quote
QuoteRow(rates, it) ==
    [Item |-> it.name,
     Qty |-> it.qty,
     UnitPrice |-> Get(rates, it.name, 0),
     Total |-> Get(rates, it.name, 0) * it.qty]

QuoteRows(rates, items) ==
    [i \in 1..Len(items) |-> QuoteRow(rates, items[i])]

\* sum(extras.values()) if extras else 0
ExtrasTotal(extras) == SumSeq([i \in 1..Len(extras) |-> extras[i].amount])

\* subtotal after the loop and the extras (rupees)
Subtotal(rows, extras) ==
    SumSeq([i \in 1..Len(rows) |-> rows[i].Total]) + ExtrasTotal(extras)

\* subtotal * (discount_percent / 100), in 1/100 rupee
DiscountAmt(subtotal, discount_percent) == subtotal * discount_percent

\* (slip: the operands swapped)
Taxable_swapped(subtotal, discount_amt) == discount_amt - subtotal * 100

\* subtotal - discount_amt, in 1/100 rupee
Taxable(subtotal, discount_amt) == subtotal * 100 - discount_amt

\* (slip: the division by 100 left out)
GstAmt_undivided(taxable) == taxable * GST_PERCENT * 100

\* taxable * GST_PERCENT / 100, in 1/10000 rupee
GstAmt(taxable) == taxable * GST_PERCENT

\* taxable + gst_amt, in 1/10000 rupee
GrandTotal(taxable, gst_amt) == taxable * 100 + gst_amt

calculate_quote(rates, items, extras, discount_percent) ==
    LET rows == QuoteRows(rates, items)
        subtotal == Subtotal(rows, extras)
        discount_amt == DiscountAmt(subtotal, discount_percent)
        taxable == Taxable(subtotal, discount_amt)
        gst_amt == GstAmt(taxable)
    IN  [rows |-> rows,
         extras |-> extras,
         subtotal |-> subtotal,
         discount_amt |-> discount_amt,
         taxable |-> taxable,
         gst_amt |-> gst_amt,
         grand_total |-> GrandTotal(taxable, gst_amt)]

\* (slip: the extras laid out before the item rows)
PdfTable_extras_first(quote_calc_) ==
    [i \in 1..Len(quote_calc_.extras) |->
        [Item |-> quote_calc_.extras[i].name, Total |-> quote_calc_.extras[i].amount]]
    \o [i \in 1..Len(quote_calc_.rows) |->
        [Item |-> quote_calc_.rows[i].Item, Qty |-> quote_calc_.rows[i].Qty,
         UnitPrice |-> quote_calc_.rows[i].UnitPrice,
         Total |-> quote_calc_.rows[i].Total]]

\* the rows of the "Detailed Cost Breakup" table of generate_pdf_bytes
\* (an extra's Qty and Unit Price cells are "-": the line has no such fields)
PdfTable(quote_calc_) ==
    [i \in 1..Len(quote_calc_.rows) |->
        [Item |-> quote_calc_.rows[i].Item, Qty |-> quote_calc_.rows[i].Qty,
         UnitPrice |-> quote_calc_.rows[i].UnitPrice,
         Total |-> quote_calc_.rows[i].Total]]
    \o [i \in 1..Len(quote_calc_.extras) |->
        [Item |-> quote_calc_.extras[i].name, Total |-> quote_calc_.extras[i].amount]]

\* what generate_pdf_bytes lays out for one quote
generate_pdf_bytes(company_info_, customer_info, quote_calc_) ==
    [company |-> company_info_.name,
     customer |-> customer_info.name,
     table |-> PdfTable(quote_calc_),
     totals |-> <<quote_calc_.subtotal, quote_calc_.discount_amt, quote_calc_.taxable,
                  quote_calc_.gst_amt, quote_calc_.grand_total>>]

-----------------------------------------------------------------------------
(* The Quote Builder form *)

\* (slip: the quantity test left out)
FormItems_ticked(order, inc, qty) ==
    LET kept == SelectSeqOf(order, {n \in ItemNames : inc[n]})
    IN  [i \in 1..Len(kept) |-> [name |-> kept[i], qty |-> qty[kept[i]]]]

\* the loop over SAMPLE_RATES.items(): an item is appended when it is ticked and
\* its quantity is positive, in the order of the dict
FormItems(order, inc, qty) ==
    LET kept == SelectSeqOf(order, {n \in ItemNames : inc[n] /\ qty[n] > 0})
    IN  [i \in 1..Len(kept) |-> [name |-> kept[i], qty |-> qty[kept[i]]]]

\* extras = {}; Design Fee, then Misc Charges, each only when positive
FormExtras(design_fee, misc) ==
    (IF design_fee > 0 THEN <<[name |-> "Design Fee", amount |-> design_fee]>> ELSE <<>>)
    \o (IF misc > 0 THEN <<[name |-> "Misc Charges", amount |-> misc]>> ELSE <<>>)

ErrCustomer == "Please enter customer name and phone number."
ErrItems == "Please include at least one item in the quote."
Success == "Quote generated"

\* the record appended to st.session_state.my_quotes
QuoteRecord(f, calc) ==
    [meta |-> [timeline |-> "3 months"],
     customer |-> [name |-> f.cname, phone |-> f.cphone],
     calc |-> calc]

\* (slips: the list rebuilt on every save; the record put in front)
SaveToSession_rebuilt(quotes, rec) == <<rec>>
SaveToSession_front(quotes, rec) == <<rec>> \o quotes

\* my_quotes after the "Save to session" block
SaveToSession(quotes, rec) == Append(quotes, rec)

\* (slip: "and" for "or" in the customer test)
Rejected_and(f, items) ==
    IF f.cname = "" /\ f.cphone = "" THEN ErrCustomer
    ELSE IF Len(items) = 0 THEN ErrItems
    ELSE Success

\* the submit handler: which branch it takes
Rejected(f, items) ==
    IF f.cname = "" \/ f.cphone = "" THEN ErrCustomer
    ELSE IF Len(items) = 0 THEN ErrItems
    ELSE Success

-----------------------------------------------------------------------------
(* One run of the script *)

\* the Admin page: each rate input shows the value it holds, the price of this
\* run for an input drawn for the first time, and the price is set to it
AdminRates(rates, rw) ==
    [n \in DOMAIN rates |-> IF rw = NoWidget THEN rates[n] ELSE rw[n]]

AdminCompany(info, cw) == IF cw = NoWidget THEN info ELSE cw

\* the My Quotes page: one PDF per record, newest first
MyQuotesPdfs(info, quotes) ==
    [i \in 1..Len(quotes) |->
        generate_pdf_bytes(info, Reversed(quotes)[i].customer, Reversed(quotes)[i].calc)]

\* (slip: the login test left out)
AdminShown_ungated(pg, li) == pg = "Admin"

\* the Admin page draws its editor only for a logged-in session
AdminShown(pg, li) == pg = "Admin" /\ li

\* login_widget draws the two text inputs only for a session that is not logged in
LoginInputs(li, lw) ==
    IF li THEN NoWidget
    ELSE IF lw = NoWidget THEN [username |-> "", password |-> ""]
    ELSE lw

\* li, un: session_state after login_widget; lw, rw, cw: the widget values the
\* browser holds; pg: the radio; f: the submitted form, NoForm when the run was
\* not started by "Generate Quote".
Run(li, un, lw, pg, rw, cw, f) ==
    LET admin == AdminShown(pg, li)
        \* lines 25-34 and 231-234 run first, in every run
        rates == IF admin THEN AdminRates(DefaultRates, rw) ELSE DefaultRates
        info == IF admin THEN AdminCompany(COMPANY_0, cw) ELSE COMPANY_0
        builder == pg = "Quote Builder" /\ f # NoForm
        items == IF builder THEN FormItems(ItemOrder, f.inc, f.qty) ELSE <<>>
        verdict == IF builder THEN Rejected(f, items) ELSE ""
        extras == IF verdict = Success THEN FormExtras(f.design_fee, f.misc) ELSE <<>>
        calc == IF verdict = Success
                THEN calculate_quote(rates, items, extras, f.discount)
                ELSE NoCalc
    IN  /\ logged_in' = li
        /\ username' = un
        /\ login_input' = LoginInputs(li, lw)
        /\ page' = pg
        /\ SAMPLE_RATES' = rates
        /\ company_info' = info
        /\ rate_widget' = IF admin THEN rates ELSE NoWidget
        /\ company_widget' = IF admin THEN info ELSE NoWidget
        /\ submit' = builder
        /\ cname' = IF builder THEN f.cname ELSE ""
        /\ cphone' = IF builder THEN f.cphone ELSE ""
        /\ selected_items' = items
        /\ shown' = verdict
        /\ call' = IF verdict = Success
                   THEN [selected_items |-> items, extras |-> extras,
                         discount_percent |-> f.discount]
                   ELSE NoCall
        /\ quote_calc' = calc
        /\ my_quotes' = IF verdict = Success
                        THEN SaveToSession(my_quotes, QuoteRecord(f, calc))
                        ELSE my_quotes
        /\ pdf' = IF verdict = Success
                  THEN <<generate_pdf_bytes(info, [name |-> f.cname, phone |-> f.cphone], calc)>>
                  ELSE IF pg = "My Quotes" THEN MyQuotesPdfs(info, my_quotes)
                  ELSE <<>>
        /\ entry' = entry

-----------------------------------------------------------------------------
(* User interactions *)

\* the credentials test of login_widget
ValidLogin(u, p) == u = "admin" /\ p = "admin"

\* the user types into the Username or the Password input
TypeUsername(u) ==
    /\ entry = "session"
    /\ login_input # NoWidget
    /\ u # login_input.username
    /\ Run(logged_in, username, [login_input EXCEPT !.username = u], page,
           rate_widget, company_widget, NoForm)
    /\ UNCHANGED admin_rates

TypePassword(p) ==
    /\ entry = "session"
    /\ login_input # NoWidget
    /\ p # login_input.password
    /\ Run(logged_in, username, [login_input EXCEPT !.password = p], page,
           rate_widget, company_widget, NoForm)
    /\ UNCHANGED admin_rates

\* the Login button: with valid credentials the script is rerun logged in,
\* otherwise "Invalid credentials" is shown and the run goes on
Login ==
    /\ entry = "session"
    /\ login_input # NoWidget
    /\ IF ValidLogin(login_input.username, login_input.password)
       THEN Run(TRUE, login_input.username, login_input, page,
                rate_widget, company_widget, NoForm)
       ELSE Run(logged_in, username, login_input, page,
                rate_widget, company_widget, NoForm)
    /\ UNCHANGED admin_rates

Logout ==
    /\ entry = "session"
    /\ logged_in
    /\ Run(FALSE, "", login_input, page, rate_widget, company_widget, NoForm)
    /\ UNCHANGED admin_rates

Navigate(pg) ==
    /\ entry = "session"
    /\ pg # page
    /\ Run(logged_in, username, login_input, pg, rate_widget, company_widget, NoForm)
    /\ UNCHANGED admin_rates

\* the administrator types r into the rate input of item n
TypeRate(n, r) ==
    /\ entry = "session"
    /\ rate_widget # NoWidget
    /\ r # rate_widget[n]
    /\ Run(logged_in, username, login_input, page,
           [rate_widget EXCEPT ![n] = r], company_widget, NoForm)

EditRate(n, r) ==
    /\ TypeRate(n, r)
    /\ UNCHANGED admin_rates

\* the same step, with the history variable kept
EditRateRecorded(n, r) ==
    /\ TypeRate(n, r)
    /\ admin_rates' = [admin_rates EXCEPT ![n] = r]

EditCompany(cw) ==
    /\ entry = "session"
    /\ company_widget # NoWidget
    /\ cw # company_widget
    /\ Run(logged_in, username, login_input, page, rate_widget, cw, NoForm)
    /\ UNCHANGED admin_rates

\* "Generate Quote".  The handler reads the extras and the discount only after
\* it has accepted the customer and the items, so a form it rejects is sent
\* with those inputs at their defaults (0.0).
SubmitQuote(cn, cp, inc, qty) ==
    /\ entry = "session"
    /\ page = "Quote Builder"
    /\ Len(my_quotes) < MaxQuotes
    /\ LET f0 == [cname |-> cn, cphone |-> cp, inc |-> inc, qty |-> qty,
                  design_fee |-> 0, misc |-> 0, discount |-> 0]
       IN  IF Rejected(f0, FormItems(ItemOrder, inc, qty)) # Success
           THEN Run(logged_in, username, login_input, page, rate_widget, company_widget, f0)
           ELSE \E df \in Fees, mc \in Fees, d \in FormDiscounts :
                   Run(logged_in, username, login_input, page, rate_widget, company_widget,
                       [f0 EXCEPT !.design_fee = df, !.misc = mc, !.discount = d])
    /\ UNCHANGED admin_rates

\* a download button: the click reruns the script and nothing else
Download ==
    /\ entry = "session"
    /\ pdf # <<>>
    /\ Run(logged_in, username, login_input, page, rate_widget, company_widget, NoForm)
    /\ UNCHANGED admin_rates

-----------------------------------------------------------------------------
(* Direct calls of the pricing engine *)

CallItems == [name : ItemNames \cup {UnknownItem}, qty : Quantities]
CallSelections == UNION {[1..k -> CallItems] : k \in 0..MaxSel}
CallExtras ==
    {<<>>,
     <<[name |-> "Design Fee", amount |-> 1000]>>,
     <<[name |-> "Design Fee", amount |-> 1000], [name |-> "Misc Charges", amount |-> 250]>>,
     <<[name |-> "Misc Charges", amount |-> 250], [name |-> "Design Fee", amount |-> 1000]>>}
CallArgs ==
    [selected_items : CallSelections, extras : CallExtras,
     discount_percent : CallDiscounts]
\* the price lists a call may find: the defaults, or one price edited
Catalogs ==
    {DefaultRates} \cup
    {[DefaultRates EXCEPT ![n] = r] : n \in ItemNames, r \in NewRates \cup {0}}

Calculate ==
    /\ entry = "call"
    /\ quote_calc = NoCalc
    /\ quote_calc' = calculate_quote(SAMPLE_RATES, call.selected_items, call.extras,
                                     call.discount_percent)
    /\ UNCHANGED <<entry, logged_in, username, login_input, page, my_quotes, SAMPLE_RATES,
                   company_info, rate_widget, company_widget, submit, cname, cphone,
                   selected_items, call, shown, pdf, admin_rates>>

RenderPdf ==
    /\ entry = "call"
    /\ quote_calc # NoCalc
    /\ pdf = <<>>
    /\ pdf' = <<generate_pdf_bytes(company_info, [name |-> "Mr. Ramesh"], quote_calc)>>
    /\ UNCHANGED <<entry, logged_in, username, login_input, page, my_quotes, SAMPLE_RATES,
                   company_info, rate_widget, company_widget, submit, cname, cphone,
                   selected_items, call, quote_calc, shown, admin_rates>>

-----------------------------------------------------------------------------

\* the state the first run of a new session leaves
SessionInit ==
    /\ logged_in = FALSE
    /\ username = ""
    /\ login_input = [username |-> "", password |-> ""]
    /\ page = "Home"
    /\ my_quotes = <<>>
    /\ company_info = COMPANY_0
    /\ rate_widget = NoWidget
    /\ company_widget = NoWidget
    /\ submit = FALSE
    /\ cname = ""
    /\ cphone = ""
    /\ selected_items = <<>>
    /\ quote_calc = NoCalc
    /\ shown = ""
    /\ pdf = <<>>
    /\ admin_rates = DefaultRates

Init ==
    /\ SessionInit
    /\ \/ /\ entry = "session"
          /\ SAMPLE_RATES = DefaultRates
          /\ call = NoCall
       \/ /\ entry = "call"
          /\ SAMPLE_RATES \in Catalogs
          /\ call \in CallArgs

Others ==
    \/ \E u \in Usernames : TypeUsername(u)
    \/ \E p \in Passwords : TypePassword(p)
    \/ Login
    \/ Logout
    \/ \E pg \in Pages : Navigate(pg)
    \/ \E cw \in [name : CompanyNames, address : CompanyAddresses] : EditCompany(cw)
    \/ \E cn \in Names, cp \in Phones, inc \in [ItemNames -> BOOLEAN],
          qty \in [ItemNames -> Quantities] : SubmitQuote(cn, cp, inc, qty)
    \/ Download
    \/ Calculate
    \/ RenderPdf

Next ==
    \/ Others
    \/ \E n \in ItemNames : \E r \in NewRates \cup {DefaultRates[n]} : EditRate(n, r)

Spec == Init /\ [][Next]_vars

\* The same program with the history variable admin_rates recorded.
NextRecorded ==
    \/ Others
    \/ \E n \in ItemNames : \E r \in NewRates \cup {DefaultRates[n]} : EditRateRecorded(n, r)

SpecRecorded == Init /\ [][NextRecorded]_vars

-----------------------------------------------------------------------------
(* Properties *)

HasCalc == quote_calc # NoCalc

RowTotals(rows) == SumSeq([i \in 1..Len(rows) |-> rows[i].Total])
ExtraAmounts(extras) == SumSeq([i \in 1..Len(extras) |-> extras[i].amount])

\* every amount of a computation is >= 0
NonNegative(q) ==
    /\ \A i \in 1..Len(q.rows) : q.rows[i].UnitPrice >= 0 /\ q.rows[i].Total >= 0
    /\ q.subtotal >= 0
    /\ q.discount_amt >= 0
    /\ q.taxable >= 0
    /\ q.gst_amt >= 0
    /\ q.grand_total >= 0

\* C1: in every result of calculate_quote, subtotal is the sum of the row totals
\* plus each extra charge once, discount_amt is subtotal * discount_percent / 100,
\* taxable is subtotal - discount_amt, gst_amt is 18% of taxable, and grand_total
\* is (subtotal - discount_amt) * 1.18.  (discount_amt and taxable are held in
\* 1/100 rupee, gst_amt and grand_total in 1/10000 rupee.)
C1_Totals ==
    HasCalc =>
        /\ quote_calc.subtotal
             = RowTotals(quote_calc.rows) + ExtraAmounts(call.extras)
        /\ quote_calc.discount_amt = quote_calc.subtotal * call.discount_percent
        /\ quote_calc.taxable = 100 * quote_calc.subtotal - quote_calc.discount_amt
        /\ quote_calc.gst_amt = 18 * quote_calc.taxable
        /\ quote_calc.grand_total
             = 118 * (100 * quote_calc.subtotal - quote_calc.discount_amt)

\* a computation with two priced rows, two extras and a 10% discount
C1_Witness ==
    /\ HasCalc
    /\ Len(quote_calc.rows) = 2
    /\ \A i \in 1..2 : quote_calc.rows[i].Total > 0
    /\ Len(call.extras) = 2
    /\ call.discount_percent = 10

\* C2 as claimed: every row of every result of calculate_quote has quantity > 0.
C2_Original ==
    HasCalc => \A i \in 1..Len(quote_calc.rows) : quote_calc.rows[i].Qty > 0

\* C2 amended: calculate_quote returns one row per selection it is given, with
\* that selection's quantity, zero included; it is the Quote Builder form that
\* leaves out an item whose quantity is 0 (or that is not ticked), so every row of
\* a quote computed from the form, and of every record of my_quotes, has
\* quantity > 0.
C2_Amended ==
    /\ HasCalc =>
          /\ Len(quote_calc.rows) = Len(call.selected_items)
          /\ \A i \in 1..Len(quote_calc.rows) :
                quote_calc.rows[i].Qty = call.selected_items[i].qty
    /\ entry = "session" =>
          /\ \A i \in 1..Len(selected_items) : selected_items[i].qty > 0
          /\ HasCalc => \A i \in 1..Len(quote_calc.rows) : quote_calc.rows[i].Qty > 0
          /\ \A k \in 1..Len(my_quotes) :
                \A i \in 1..Len(my_quotes[k].calc.rows) :
                    my_quotes[k].calc.rows[i].Qty > 0

\* a quote computed from the form in which an item of the price list has no row
C2_Witness ==
    /\ entry = "session"
    /\ HasCalc
    /\ Len(quote_calc.rows) < Len(ItemOrder)
    /\ my_quotes # <<>>

\* C3: a row whose item is not a key of SAMPLE_RATES has unit price 0 and total 0
\* whatever its quantity and adds nothing to the subtotal; a row whose item is a
\* key has the price of the list and total price * quantity.
C3_UnknownItemPricedZero ==
    HasCalc =>
        /\ \A i \in 1..Len(quote_calc.rows) :
              LET r == quote_calc.rows[i]
              IN  IF r.Item \in DOMAIN SAMPLE_RATES
                  THEN r.UnitPrice = SAMPLE_RATES[r.Item]
                       /\ r.Total = SAMPLE_RATES[r.Item] * r.Qty
                  ELSE r.UnitPrice = 0 /\ r.Total = 0
        /\ quote_calc.subtotal
             = SumSeq([i \in 1..Len(call.selected_items) |->
                         IF call.selected_items[i].name \in DOMAIN SAMPLE_RATES
                         THEN SAMPLE_RATES[call.selected_items[i].name]
                              * call.selected_items[i].qty
                         ELSE 0])
               + ExtraAmounts(call.extras)

\* a computation with an unknown item in positive quantity beside a priced one
C3_Witness ==
    /\ HasCalc
    /\ \E i \in 1..Len(quote_calc.rows) :
          quote_calc.rows[i].Item \notin DOMAIN SAMPLE_RATES /\ quote_calc.rows[i].Qty > 0
    /\ \E i \in 1..Len(quote_calc.rows) :
          quote_calc.rows[i].Item \in DOMAIN SAMPLE_RATES /\ quote_calc.rows[i].Total > 0

\* what a PDF shows of a computation
ShowsCalc(doc, q) ==
    /\ Len(doc.table) = Len(q.rows) + Len(q.extras)
    /\ \A j \in 1..Len(q.rows) :
          /\ doc.table[j].UnitPrice = q.rows[j].UnitPrice
          /\ doc.table[j].Total = q.rows[j].Total
    /\ doc.totals = <<q.subtotal, q.discount_amt, q.taxable, q.gst_amt, q.grand_total>>

\* C4: no step changes a record of my_quotes (an edit of the price list, a
\* navigation, a rerun), and every PDF of the My Quotes page shows the rows and
\* the totals of its record.
C4_QuotesKeepTheirPrices ==
    /\ [][\A k \in 1..Len(my_quotes) :
             Len(my_quotes') >= k /\ my_quotes'[k] = my_quotes[k]]_vars
    /\ [](page = "My Quotes" =>
             /\ Len(pdf) = Len(my_quotes)
             /\ \A k \in 1..Len(my_quotes) :
                   ShowsCalc(pdf[k], my_quotes[Len(my_quotes) + 1 - k].calc))

\* a stored quote whose first row's price differs from the edited price list
C4_Witness ==
    /\ my_quotes # <<>>
    /\ page = "Admin"
    /\ LET r == my_quotes[1].calc.rows[1]
       IN  SAMPLE_RATES[r.Item] # r.UnitPrice

\* C5: once the administrator has set the price of an item, every quote computed
\* afterwards in the session prices the item at it.
C5_EditTakesEffect ==
    (entry = "session" /\ HasCalc) =>
        \A i \in 1..Len(quote_calc.rows) :
            quote_calc.rows[i].UnitPrice = admin_rates[quote_calc.rows[i].Item]

\* C6: a step changes the price list or the company details only from a
\* logged-in Admin page, and they differ from the built-in values only there;
\* logged_in becomes true only in a step from a state in which "admin" and
\* "admin" are typed into the login inputs, and a step that makes it false
\* clears the username (Logout).
C6_AdminGatedEdits ==
    /\ [][(SAMPLE_RATES' # SAMPLE_RATES \/ company_info' # company_info)
             => (logged_in /\ page = "Admin")]_vars
    /\ []((SAMPLE_RATES # DefaultRates \/ company_info # COMPANY_0)
             => (entry = "call" \/ (logged_in /\ page = "Admin")))
    /\ [][(~logged_in /\ logged_in') =>
             /\ login_input.username = "admin" /\ login_input.password = "admin"
             /\ username' = "admin"]_vars
    /\ [][(logged_in /\ ~logged_in') => username' = ""]_vars
    /\ [](entry = "session" => (logged_in <=> username = "admin"))

\* an edited price and an edited company name on the Admin page
C6_Witness ==
    /\ entry = "session"
    /\ logged_in
    /\ page = "Admin"
    /\ SAMPLE_RATES # DefaultRates
    /\ company_info.name # COMPANY_0.name

\* C7: the rows of a computation follow the selections one for one, and the PDF
\* table lists them in that order, then the extras in the order of the mapping;
\* the form builds the mapping with Design Fee before Misc Charges.
C7_RowOrder ==
    HasCalc =>
        /\ Len(quote_calc.rows) = Len(call.selected_items)
        /\ \A i \in 1..Len(quote_calc.rows) :
              quote_calc.rows[i].Item = call.selected_items[i].name
        /\ quote_calc.extras = call.extras
        /\ pdf # <<>> =>
              /\ Len(pdf[1].table) = Len(call.selected_items) + Len(call.extras)
              /\ \A i \in 1..Len(call.selected_items) :
                    pdf[1].table[i].Item = call.selected_items[i].name
              /\ \A i \in 1..Len(call.extras) :
                    /\ pdf[1].table[Len(call.selected_items) + i].Item = call.extras[i].name
                    /\ pdf[1].table[Len(call.selected_items) + i].Total = call.extras[i].amount
        /\ entry = "session" =>
              /\ \A i \in 1..Len(call.selected_items) : \A j \in 1..Len(call.selected_items) :
                    (i < j) =>
                        \E a \in 1..Len(ItemOrder) : \E b \in 1..Len(ItemOrder) :
                            /\ a < b
                            /\ ItemOrder[a] = call.selected_items[i].name
                            /\ ItemOrder[b] = call.selected_items[j].name
              /\ Len(call.extras) = 2 =>
                    /\ call.extras[1].name = "Design Fee"
                    /\ call.extras[2].name = "Misc Charges"

\* a form quote with two rows and both extras, and its PDF
C7_Witness ==
    /\ entry = "session"
    /\ HasCalc
    /\ Len(quote_calc.rows) = 2
    /\ Len(call.extras) = 2
    /\ pdf # <<>>

\* C8: a step either leaves my_quotes as it is or is an accepted submission,
\* which puts its one record (customer, computation) at the end; and every
\* accepted submission does so.
C8_AppendOnly ==
    /\ [][\/ my_quotes' = my_quotes
          \/ /\ submit' /\ shown' = Success
             /\ Len(my_quotes') = Len(my_quotes) + 1
             /\ SubSeq(my_quotes', 1, Len(my_quotes)) = my_quotes]_vars
    /\ [][(submit' /\ shown' = Success) =>
             /\ Len(my_quotes') = Len(my_quotes) + 1
             /\ my_quotes'[Len(my_quotes')].calc = quote_calc'
             /\ my_quotes'[Len(my_quotes')].customer.name = cname'
             /\ my_quotes'[Len(my_quotes')].customer.phone = cphone']_vars

\* two different records, the later one last
C8_Witness ==
    /\ Len(my_quotes) = 2
    /\ my_quotes[1] # my_quotes[2]
    /\ submit /\ shown = Success
    /\ my_quotes[2].calc = quote_calc

\* C9: a submission without a name, without a phone or without an item is
\* answered with an error, calculate_quote is not invoked and my_quotes is left
\* as it was; every record has a name, a phone and at least one row.
C9_RejectedBeforePricing ==
    /\ [][(submit' /\ (cname' = "" \/ cphone' = "" \/ selected_items' = <<>>)) =>
             /\ shown' \in {ErrCustomer, ErrItems}
             /\ call' = NoCall
             /\ quote_calc' = NoCalc
             /\ my_quotes' = my_quotes]_vars
    /\ [](\A k \in 1..Len(my_quotes) :
             /\ my_quotes[k].customer.name # ""
             /\ my_quotes[k].customer.phone # ""
             /\ Len(my_quotes[k].calc.rows) >= 1)

\* a submission with items but no phone number, rejected after an accepted one
C9_Witness ==
    /\ submit
    /\ cname # "" /\ cphone = "" /\ selected_items # <<>>
    /\ shown = ErrCustomer
    /\ my_quotes # <<>>

\* C10: with a discount in [0, 100] every amount of a computation is >= 0, so a
\* negative taxable, tax or grand total means a discount above 100; the form
\* passes a discount in [0, 100] and no record of my_quotes has a negative amount.
C10_NonNegative ==
    /\ HasCalc =>
          /\ (call.discount_percent >= 0 /\ call.discount_percent <= 100)
                => NonNegative(quote_calc)
          /\ (quote_calc.taxable < 0 \/ quote_calc.gst_amt < 0 \/ quote_calc.grand_total < 0)
                => call.discount_percent > 100
          /\ entry = "session" =>
                (call.discount_percent >= 0 /\ call.discount_percent <= 100)
    /\ \A k \in 1..Len(my_quotes) : NonNegative(my_quotes[k].calc)

\* the whole subtotal discounted away: taxable is exactly 0
C10_Witness ==
    /\ HasCalc
    /\ call.discount_percent = 100
    /\ quote_calc.subtotal > 0
    /\ quote_calc.taxable = 0

====
